---- MODULE Spec2Model ----
(***************************************************************************)
(* Exact inference over a small genetic pedigree (heredity.py).            *)
(*                                                                         *)
(* The program's numbers are Python floats.  The model computes the same   *)
(* expressions in exact arithmetic: a decimal is a mantissa with a number  *)
(* of decimal places, the mantissa an arbitrary-size natural kept as a     *)
(* little-endian sequence of limbs, and a number is a quotient of two      *)
(* decimals (the quotient appears only through the division of             *)
(* normalize).  Rounding of the floats is therefore not modelled.          *)
(***************************************************************************)
EXTENDS Integers, Sequences, FiniteSets, Bags, TLC

VARIABLES people, probabilities, ti, oi, wi, pc, p, scored, s, subsets, calls, folded, last

vars == <<people, probabilities, ti, oi, wi, pc, p, scored, s, subsets, calls, folded, last>>

----------------------------------------------------------------------------
(* Bounds of the model *)

\* largest number of persons in a pedigree
MaxPeople == 3

\* largest size of the set handed to powerset on its own
MaxSetSize == 4

\* largest number of update calls before normalize, update and normalize on their own
MaxCalls == 2

----------------------------------------------------------------------------
(* Evaluation: an operator that uses an argument more than once binds it   *)
(* first (x \in {arg}), so that the argument is evaluated a single time.   *)

The(S) == CHOOSE x \in S : TRUE

----------------------------------------------------------------------------
(* Arbitrary-size naturals: little-endian limbs, no high zero limb, 0 = <<>> *)

Base == 10000

RECURSIVE BigOfNat(_)
BigOfNat(n) == IF n = 0 THEN <<>> ELSE <<n % Base>> \o BigOfNat(n \div Base)

RECURSIVE BigAddC(_, _, _)
BigAddC(a, b, carry) ==
    IF a = <<>> /\ b = <<>>
    THEN IF carry = 0 THEN <<>> ELSE <<carry>>
    ELSE The({<<sum % Base>> \o BigAddC(ra, rb, sum \div Base) :
                sum \in {(IF a = <<>> THEN 0 ELSE Head(a)) + (IF b = <<>> THEN 0 ELSE Head(b)) + carry},
                ra \in {IF a = <<>> THEN <<>> ELSE Tail(a)},
                rb \in {IF b = <<>> THEN <<>> ELSE Tail(b)}})

BigAdd(a, b) == The({BigAddC(x, y, 0) : x \in {a}, y \in {b}})

RECURSIVE BigTrim(_)
BigTrim(a) ==
    IF a = <<>> THEN <<>>
    ELSE IF a[Len(a)] = 0 THEN BigTrim(SubSeq(a, 1, Len(a) - 1)) ELSE a

\* a - b for a >= b, high zero limbs kept
RECURSIVE BigSubB(_, _, _)
BigSubB(a, b, borrow) ==
    IF a = <<>> THEN <<>>
    ELSE The({IF Head(a) >= y
              THEN <<Head(a) - y>> \o BigSubB(ra, rb, 0)
              ELSE <<Head(a) + Base - y>> \o BigSubB(ra, rb, 1) :
                y \in {(IF b = <<>> THEN 0 ELSE Head(b)) + borrow},
                ra \in {Tail(a)},
                rb \in {IF b = <<>> THEN <<>> ELSE Tail(b)}})

BigSub(a, b) == The({BigTrim(d) : d \in {The({BigSubB(x, y, 0) : x \in {a}, y \in {b}})}})

\* a * k + carry for one limb k
RECURSIVE BigMulLimb(_, _, _)
BigMulLimb(a, k, carry) ==
    IF a = <<>>
    THEN IF carry = 0 THEN <<>> ELSE <<carry>>
    ELSE The({<<prod % Base>> \o BigMulLimb(ra, k, prod \div Base) :
                prod \in {Head(a) * k + carry}, ra \in {Tail(a)}})

RECURSIVE BigMulR(_, _)
BigMulR(a, b) ==
    IF a = <<>> \/ b = <<>> THEN <<>>
    ELSE The({BigAddC(low, IF high = <<>> THEN <<>> ELSE <<0>> \o high, 0) :
                low \in {IF Head(b) = 0 THEN <<>> ELSE BigMulLimb(a, Head(b), 0)},
                high \in {BigMulR(a, Tail(b))}})

BigMul(a, b) == The({BigMulR(x, y) : x \in {a}, y \in {b}})

RECURSIVE BigPow10(_)
BigPow10(k) == IF k = 0 THEN <<1>> ELSE BigMulLimb(BigPow10(k - 1), 10, 0)

----------------------------------------------------------------------------
(* Decimals m / 10^e and numbers num / den *)

Dec(m, e) == [m |-> BigOfNat(m), e |-> e]

DecMax(a, b) == IF a.e >= b.e THEN a.e ELSE b.e

\* the mantissa of a written with e decimal places, e >= a.e
DecAt(a, e) == IF e = a.e THEN a.m ELSE BigMul(a.m, BigPow10(e - a.e))

DecAdd(a, b) == [m |-> BigAdd(DecAt(a, DecMax(a, b)), DecAt(b, DecMax(a, b))), e |-> DecMax(a, b)]

DecSub(a, b) == [m |-> BigSub(DecAt(a, DecMax(a, b)), DecAt(b, DecMax(a, b))), e |-> DecMax(a, b)]

DecMul(a, b) == [m |-> BigMul(a.m, b.m), e |-> a.e + b.e]

DecEq(a, b) == DecAt(a, DecMax(a, b)) = DecAt(b, DecMax(a, b))

DecIsZero(a) == a.m = <<>>

Num(m, e) == [num |-> Dec(m, e), den |-> Dec(1, 0)]

NumAdd(x, y) ==
    The({IF DecEq(a.den, b.den)
         THEN [num |-> DecAdd(a.num, b.num), den |-> a.den]
         ELSE [num |-> DecAdd(DecMul(a.num, b.den), DecMul(b.num, a.den)),
               den |-> DecMul(a.den, b.den)] : a \in {x}, b \in {y}})

NumSub(x, y) ==
    The({IF DecEq(a.den, b.den)
         THEN [num |-> DecSub(a.num, b.num), den |-> a.den]
         ELSE [num |-> DecSub(DecMul(a.num, b.den), DecMul(b.num, a.den)),
               den |-> DecMul(a.den, b.den)] : a \in {x}, b \in {y}})

NumMul(x, y) ==
    The({[num |-> DecMul(a.num, b.num), den |-> DecMul(a.den, b.den)] : a \in {x}, b \in {y}})

\* x / y for y # 0
NumDiv(x, y) ==
    The({[num |-> DecMul(a.num, b.den), den |-> DecMul(a.den, b.num)] : a \in {x}, b \in {y}})

NumEq(x, y) ==
    The({DecEq(DecMul(a.num, b.den), DecMul(b.num, a.den)) : a \in {x}, b \in {y}})

NumIsZero(x) == DecIsZero(x.num)

Zero == Num(0, 0)

One == Num(1, 0)

Two == Num(2, 0)

Half == Num(5, 1)

----------------------------------------------------------------------------
(* The probability model *)

None == "None"

PROBS ==
    [gene |-> [g \in 0..2 |-> CASE g = 2 -> Num(1, 2) [] g = 1 -> Num(3, 2) [] g = 0 -> Num(96, 2)],
     trait |-> [g \in 0..2 |->
                  CASE g = 2 -> [t \in BOOLEAN |-> IF t THEN Num(65, 2) ELSE Num(35, 2)]
                    [] g = 1 -> [t \in BOOLEAN |-> IF t THEN Num(56, 2) ELSE Num(44, 2)]
                    [] g = 0 -> [t \in BOOLEAN |-> IF t THEN Num(1, 2) ELSE Num(99, 2)]],
     mutation |-> Num(1, 2)]

----------------------------------------------------------------------------
(* Results of a call: a returned value or a raised exception *)

Return(v) == [raised |-> FALSE, value |-> v]

Raise(e) == [raised |-> TRUE, error |-> e]

----------------------------------------------------------------------------
(* powerset *)

\* every persons' name the model uses, in the order list(s) yields them
AllNames == <<"Harry", "James", "Lily", "Molly", "Percy">>

\* list(s) of a set of names; CPython leaves the order open, the model fixes one
list(S) == SelectSeq(AllNames, LAMBDA x : x \in S)

Range(f) == {f[i] : i \in DOMAIN f}

\* itertools.combinations(l, r): the r-length subsequences of l, in index order
RECURSIVE combinations(_, _)
combinations(l, r) ==
    IF r = 0 THEN << <<>> >>
    ELSE IF Len(l) < r THEN <<>>
    ELSE The({[i \in 1..Len(rest) |-> <<Head(l)>> \o rest[i]] : rest \in {combinations(Tail(l), r - 1)}})
         \o combinations(Tail(l), r)

\* chain with range(from, len(l)): the combinations of full length left out
RECURSIVE chain_short(_, _)
chain_short(l, from) ==
    IF from >= Len(l) THEN <<>> ELSE combinations(l, from) \o chain_short(l, from + 1)

\* itertools.chain.from_iterable(combinations(l, r) for r in range(from, len(l) + 1))
RECURSIVE chain(_, _)
chain(l, from) ==
    IF from > Len(l) THEN <<>> ELSE combinations(l, from) \o chain(l, from + 1)

\* powerset of the list l = list(s)
powerset(l) == The({[i \in 1..Len(c) |-> Range(c[i])] : c \in {chain(l, 0)}})

----------------------------------------------------------------------------
(* joint_probability *)

Sq(x) == NumMul(x, x)

\* the branch chain of the loop over two_genes
two_genes_probability(mother, father, one_gene, two_genes, set_no_genes) ==
    LET m == PROBS.mutation
    IN  IF mother = None /\ father = None THEN Return(PROBS.gene[2])
        ELSE IF mother \in two_genes /\ father \in two_genes
             THEN Return(NumMul(Two, NumSub(One, m)))
        ELSE IF mother \in set_no_genes /\ father \in set_no_genes
             THEN Return(Sq(m))
        ELSE IF mother \in one_gene /\ father \in one_gene
             THEN Return(NumMul(NumMul(Half, Two), NumSub(One, m)))
        ELSE IF mother \in one_gene /\ father \in set_no_genes
             THEN Return(NumMul(NumMul(Half, NumSub(One, m)), m))
        ELSE IF father \in one_gene /\ mother \in set_no_genes
             THEN Return(NumMul(NumMul(Half, NumSub(One, m)), m))
        ELSE IF mother \in two_genes /\ father \in set_no_genes
             THEN Return(NumMul(NumSub(One, m), m))
        ELSE IF father \in two_genes /\ mother \in set_no_genes
             THEN Return(NumMul(NumSub(One, m), m))
        ELSE IF mother \in one_gene /\ father \in two_genes
             THEN Return(NumMul(Half, Sq(NumSub(One, m))))
        ELSE IF father \in one_gene /\ mother \in two_genes
             THEN Return(NumMul(Half, Sq(NumSub(One, m))))
        ELSE Raise("TypeError")

\* the branch chain of the loop over one_gene
one_gene_probability(mother, father, one_gene, two_genes, set_no_genes) ==
    LET m == PROBS.mutation
        mixed == NumAdd(NumMul(NumMul(Half, NumSub(One, m)), NumSub(One, m)),
                        NumMul(NumMul(Half, NumSub(One, m)), m))
    IN  IF mother = None /\ father = None THEN Return(PROBS.gene[1])
        ELSE IF mother \in two_genes /\ father \in two_genes
             THEN Return(One)
        ELSE IF mother \in set_no_genes /\ father \in set_no_genes
             THEN Return(NumMul(NumMul(m, NumSub(One, m)), Two))
        ELSE IF mother \in one_gene /\ father \in set_no_genes
             THEN Return(mixed)
        ELSE IF father \in one_gene /\ mother \in set_no_genes
             THEN Return(mixed)
        ELSE IF mother \in two_genes /\ father \in set_no_genes
             THEN Return(NumAdd(Sq(NumSub(One, m)), Sq(m)))
        ELSE IF father \in two_genes /\ mother \in set_no_genes
             THEN Return(NumAdd(Sq(NumSub(One, m)), Sq(m)))
        ELSE IF mother \in one_gene /\ father \in one_gene
             THEN Return(NumMul(Sq(NumMul(Half, NumSub(One, m))), Two))
        ELSE IF mother \in one_gene /\ father \in two_genes
             THEN Return(NumMul(NumMul(Sq(NumSub(One, m)), Half), Two))
        ELSE IF mother \in two_genes /\ father \in one_gene
             THEN Return(NumMul(NumMul(Sq(NumSub(One, m)), Half), Two))
        ELSE Raise("TypeError")

\* no_genes_probability with a default factor in place of the raise
no_genes_probability_default(mother, father, one_gene, two_genes, set_no_genes) ==
    LET m == PROBS.mutation
    IN  IF mother = None /\ father = None THEN Return(PROBS.gene[0])
        ELSE IF mother \in two_genes /\ father \in two_genes
             THEN Return(Sq(m))
        ELSE IF mother \in set_no_genes /\ father \in set_no_genes
             THEN Return(Sq(NumSub(One, m)))
        ELSE IF mother \in one_gene /\ father \in set_no_genes
             THEN Return(NumMul(Half, NumSub(One, m)))
        ELSE IF father \in one_gene /\ mother \in set_no_genes
             THEN Return(NumMul(Half, NumSub(One, m)))
        ELSE IF mother \in two_genes /\ father \in set_no_genes
             THEN Return(NumMul(m, NumSub(One, m)))
        ELSE IF father \in two_genes /\ mother \in set_no_genes
             THEN Return(NumMul(m, NumSub(One, m)))
        ELSE IF mother \in one_gene /\ father \in one_gene
             THEN Return(Sq(NumMul(Half, NumSub(One, m))))
        ELSE IF mother \in one_gene /\ father \in two_genes
             THEN Return(NumMul(NumMul(m, Half), NumSub(One, m)))
        ELSE IF mother \in two_genes /\ father \in one_gene
             THEN Return(NumMul(NumMul(m, Half), NumSub(One, m)))
        ELSE Return(One)

\* the branch chain of the loop over set_no_genes
no_genes_probability(mother, father, one_gene, two_genes, set_no_genes) ==
    LET m == PROBS.mutation
    IN  IF mother = None /\ father = None THEN Return(PROBS.gene[0])
        ELSE IF mother \in two_genes /\ father \in two_genes
             THEN Return(Sq(m))
        ELSE IF mother \in set_no_genes /\ father \in set_no_genes
             THEN Return(Sq(NumSub(One, m)))
        ELSE IF mother \in one_gene /\ father \in set_no_genes
             THEN Return(NumMul(Half, NumSub(One, m)))
        ELSE IF father \in one_gene /\ mother \in set_no_genes
             THEN Return(NumMul(Half, NumSub(One, m)))
        ELSE IF mother \in two_genes /\ father \in set_no_genes
             THEN Return(NumMul(m, NumSub(One, m)))
        ELSE IF father \in two_genes /\ mother \in set_no_genes
             THEN Return(NumMul(m, NumSub(One, m)))
        ELSE IF mother \in one_gene /\ father \in one_gene
             THEN Return(Sq(NumMul(Half, NumSub(One, m))))
        ELSE IF mother \in one_gene /\ father \in two_genes
             THEN Return(NumMul(NumMul(m, Half), NumSub(One, m)))
        ELSE IF mother \in two_genes /\ father \in one_gene
             THEN Return(NumMul(NumMul(m, Half), NumSub(One, m)))
        ELSE Raise("TypeError")

\* the gene factor of one iteration of the loop for persons with `count` copies
gene_probability(ppl, person, count, one_gene, two_genes, set_no_genes) ==
    CASE count = 2 -> two_genes_probability(ppl[person].mother, ppl[person].father,
                                            one_gene, two_genes, set_no_genes)
      [] count = 1 -> one_gene_probability(ppl[person].mother, ppl[person].father,
                                           one_gene, two_genes, set_no_genes)
      [] count = 0 -> no_genes_probability(ppl[person].mother, ppl[person].father,
                                           one_gene, two_genes, set_no_genes)

\* trait_probability taking the trait's probability for every person
trait_probability_always_true(person, count, have_trait, set_no_trait) ==
    PROBS.trait[count][TRUE]

\* the trait factor of one iteration; the last branch only prints 'Error'
trait_probability(person, count, have_trait, set_no_trait) ==
    IF person \in have_trait THEN PROBS.trait[count][TRUE]
    ELSE IF person \in set_no_trait THEN PROBS.trait[count][FALSE]
    ELSE One

\* the iterations of the three loops, in order: <<person, count>>
iterations(one_gene, two_genes, set_no_genes) ==
    [i \in 1..Len(list(two_genes)) |-> <<list(two_genes)[i], 2>>]
    \o [i \in 1..Len(list(one_gene)) |-> <<list(one_gene)[i], 1>>]
    \o [i \in 1..Len(list(set_no_genes)) |-> <<list(set_no_genes)[i], 0>>]

\* the product the six accumulators hold after the iterations its, gene[i] the
\* gene factor of iteration i
RECURSIVE accumulate(_, _, _, _, _)
accumulate(its, gene, i, have_trait, set_no_trait) ==
    IF i > Len(its) THEN One
    ELSE NumMul(NumMul(gene[i].value,
                       trait_probability(its[i][1], its[i][2], have_trait, set_no_trait)),
                accumulate(its, gene, i + 1, have_trait, set_no_trait))

joint_probability(ppl, one_gene, two_genes, have_trait) ==
    The({The({IF \E i \in 1..Len(its) : gene[i].raised
              THEN Raise("TypeError")
              ELSE Return(accumulate(its, gene, 1, have_trait, DOMAIN ppl \ have_trait)) :
              gene \in {[i \in 1..Len(its) |->
                           gene_probability(ppl, its[i][1], its[i][2], one_gene, two_genes,
                                            (DOMAIN ppl \ one_gene) \ two_genes)]}}) :
         its \in {iterations(one_gene, two_genes, (DOMAIN ppl \ one_gene) \ two_genes)}})

----------------------------------------------------------------------------
(* update *)

\* add_gene assigning pr in place of adding it
add_gene_assign(d, g, pr) == [d EXCEPT !.gene[g] = pr]

\* the dictionary's value at gene bucket g after  probabilities[person]["gene"][g] += pr
add_gene(d, g, pr) == [d EXCEPT !.gene[g] = NumAdd(@, pr)]

\* the dictionary's value after  probabilities[person]["trait"][t] += pr
add_trait(d, t, pr) == [d EXCEPT !.trait[t] = NumAdd(@, pr)]

update(dist, one_gene, two_genes, have_trait, pr) ==
    [person \in DOMAIN dist |->
        IF person \in one_gene
        THEN IF person \in have_trait
             THEN add_trait(add_gene(dist[person], 1, pr), TRUE, pr)
             ELSE add_trait(add_gene(dist[person], 1, pr), FALSE, pr)
        ELSE IF person \in two_genes
        THEN IF person \in have_trait
             THEN add_trait(add_gene(dist[person], 2, pr), TRUE, pr)
             ELSE add_gene(add_trait(dist[person], FALSE, pr), 2, pr)
        ELSE IF person \notin one_gene /\ person \notin two_genes
        THEN IF person \in have_trait
             THEN add_trait(add_gene(dist[person], 0, pr), TRUE, pr)
             ELSE add_trait(add_gene(dist[person], 0, pr), FALSE, pr)
        ELSE IF person \in have_trait
             THEN add_trait(dist[person], TRUE, pr)
             ELSE add_trait(dist[person], FALSE, pr)]

----------------------------------------------------------------------------
(* normalize *)

\* total leaving out the bucket of zero copies
total_without_zero(d, field) ==
    IF field = "trait"
    THEN NumAdd(NumAdd(Zero, d[TRUE]), d[FALSE])
    ELSE NumAdd(NumAdd(Zero, d[2]), d[1])

\* sum(probabilities[person][field].values())
total(d, field) ==
    IF field = "trait"
    THEN NumAdd(NumAdd(Zero, d[TRUE]), d[FALSE])
    ELSE NumAdd(NumAdd(NumAdd(Zero, d[2]), d[1]), d[0])

\* lines 310-312: the total, then the inner loop over the values; total not zero
normalize_field(d, field) ==
    The({[value \in DOMAIN d |-> NumDiv(NumMul(d[value], One), t)] : t \in {total(d, field)}})

\* the <<person, field>> pairs in the order the two outer loops visit them
fields(dist) ==
    The({[i \in 1..(2 * Len(persons)) |->
            <<persons[(i + 1) \div 2], IF i % 2 = 1 THEN "gene" ELSE "trait">>] :
         persons \in {list(DOMAIN dist)}})

\* rescaled with no total ever taken for zero
rescaled_all(dist) == 2 * Cardinality(DOMAIN dist)

\* the number of distributions rescaled before the first division by a zero total
rescaled(dist) ==
    The({IF bad = {} THEN 2 * Cardinality(DOMAIN dist)
         ELSE (CHOOSE i \in bad : \A j \in bad : i <= j) - 1 :
         bad \in {The({{i \in 1..Len(fs) : NumIsZero(total(dist[fs[i][1]][fs[i][2]], fs[i][2]))} :
                       fs \in {fields(dist)}})}})

\* the dictionary once the first n distributions of fs are rescaled
normalized(dist, fs, n) ==
    [person \in DOMAIN dist |->
        [gene |-> IF \E i \in 1..n : fs[i] = <<person, "gene">>
                  THEN normalize_field(dist[person].gene, "gene") ELSE dist[person].gene,
         trait |-> IF \E i \in 1..n : fs[i] = <<person, "trait">>
                   THEN normalize_field(dist[person].trait, "trait") ELSE dist[person].trait]]

normalize(dist) ==
    The({IF n = Len(fs)
         THEN Return(normalized(dist, fs, n))
         ELSE [raised |-> TRUE, error |-> "ZeroDivisionError", value |-> normalized(dist, fs, n)] :
         fs \in {fields(dist)}, n \in {rescaled(dist)}})

----------------------------------------------------------------------------
(* main: the pedigrees load_data can hand over *)

Traits == {"True", "False", None}

names(n) == {AllNames[i] : i \in 1..n}

founder(name, trait) == [name |-> name, mother |-> None, father |-> None, trait |-> trait]

\* persons 1..n, the persons in children having the two persons before them as
\* mother and father, everyone else a founder
family(n, children, ev) ==
    [name \in names(n) |->
        LET i == CHOOSE k \in 1..n : AllNames[k] = name
        IN  IF i \in children
            THEN [name |-> name, mother |-> AllNames[i - 2], father |-> AllNames[i - 1],
                  trait |-> ev[name]]
            ELSE founder(name, ev[name])]

Defects == {"mother only", "father only", "unknown mother", "unknown father"}

\* founders, but person i's row breaks the both-or-neither rule for parents
broken(n, i, defect, ev) ==
    LET other == AllNames[(i % n) + 1]
    IN  [family(n, {}, ev) EXCEPT ![AllNames[i]] =
            [name |-> AllNames[i],
             mother |-> CASE defect = "mother only" -> other
                          [] defect = "father only" -> None
                          [] defect = "unknown mother" -> "Nobody"
                          [] defect = "unknown father" -> other,
             father |-> CASE defect = "mother only" -> None
                          [] defect = "father only" -> other
                          [] defect = "unknown mother" -> other
                          [] defect = "unknown father" -> "Nobody",
             trait |-> ev[AllNames[i]]]]

Pedigrees ==
    UNION {{family(n, children, ev) : children \in SUBSET (3..n), ev \in [names(n) -> Traits]}
           \cup {broken(n, i, defect, ev) : i \in (IF n >= 2 THEN 1..n ELSE {}), defect \in Defects, ev \in [names(n) -> Traits]}
           : n \in 1..MaxPeople}

\* lines 48-61: every bucket of every person 0
zeros(persons) ==
    [person \in persons |-> [gene |-> [g \in 0..2 |-> Zero], trait |-> [t \in BOOLEAN |-> Zero]]]

NoCall == [one_gene |-> {}, two_genes |-> {}, have_trait |-> {}, p |-> Zero]

----------------------------------------------------------------------------
(* main: the enumeration of lines 63-85 *)

\* powerset(names), the list the outer loop and the one_gene loop run over
subsets_of_names == powerset(list(DOMAIN people))

\* fails_evidence checking the persons observed with the trait only
fails_evidence_observed_true(ppl, have_trait) ==
    \E person \in DOMAIN ppl : ppl[person].trait = "True" /\ person \notin have_trait

\* lines 68-72
fails_evidence(ppl, have_trait) ==
    \E person \in DOMAIN ppl :
        /\ ppl[person].trait # None
        /\ (ppl[person].trait = "True") # (person \in have_trait)

\* two_genes_choices over all names, one_gene not taken out
two_genes_choices_all(one_gene) == powerset(list(DOMAIN people))

\* powerset(names - one_gene), the list the innermost loop runs over
two_genes_choices(one_gene) == powerset(list(DOMAIN people \ one_gene))

Init ==
    /\ people \in Pedigrees
    /\ probabilities = zeros(DOMAIN people)
    /\ ti = 1 /\ oi = 1 /\ wi = 1
    /\ pc = "enumerate"
    /\ p = Zero
    /\ scored = EmptyBag
    /\ last = NoCall
    /\ s = <<>> /\ subsets = <<>> /\ calls = 0 /\ folded = Zero

\* lines 73-74: continue
Skip ==
    /\ pc = "enumerate"
    /\ ti <= Len(subsets_of_names)
    /\ fails_evidence(people, subsets_of_names[ti])
    /\ ti' = ti + 1 /\ oi' = 1 /\ wi' = 1
    /\ UNCHANGED <<people, probabilities, pc, p, scored, s, subsets, calls, folded, last>>

\* the loop indices after one pass of the innermost body
Step(all, choices) ==
    IF wi < Len(choices)
    THEN wi' = wi + 1 /\ UNCHANGED <<ti, oi>>
    ELSE IF oi < Len(all)
         THEN oi' = oi + 1 /\ wi' = 1 /\ UNCHANGED ti
         ELSE ti' = ti + 1 /\ oi' = 1 /\ wi' = 1

\* lines 81-82
Score ==
    /\ pc = "enumerate"
    /\ ti <= Len(subsets_of_names)
    /\ \E all \in {subsets_of_names} :
       \E have_trait \in {all[ti]}, one_gene \in {all[oi]} :
       \E choices \in {two_genes_choices(one_gene)} :
       \E two_genes \in {choices[wi]} :
       \E r \in {joint_probability(people, one_gene, two_genes, have_trait)} :
          /\ ~fails_evidence(people, have_trait)
          /\ ~r.raised
          /\ p' = r.value
          /\ probabilities' = update(probabilities, one_gene, two_genes, have_trait, r.value)
          /\ last' = [one_gene |-> one_gene, two_genes |-> two_genes,
                      have_trait |-> have_trait, p |-> r.value]
          /\ scored' = scored (+) SetToBag({<<one_gene, two_genes, have_trait>>})
          /\ Step(all, choices)
    /\ UNCHANGED <<people, pc, s, subsets, calls, folded>>

\* line 81 raising: nothing catches the exception, the run ends
ScoreRaises ==
    /\ pc = "enumerate"
    /\ ti <= Len(subsets_of_names)
    /\ \E all \in {subsets_of_names} :
       \E have_trait \in {all[ti]}, one_gene \in {all[oi]} :
       \E two_genes \in {two_genes_choices(one_gene)[wi]} :
       \E r \in {joint_probability(people, one_gene, two_genes, have_trait)} :
          /\ ~fails_evidence(people, have_trait)
          /\ r.raised
          /\ pc' = r.error
    /\ UNCHANGED <<people, probabilities, ti, oi, wi, p, scored, s, subsets, calls, folded, last>>

\* line 85, then the output of lines 88-94
Normalize ==
    /\ pc = "enumerate"
    /\ ti > Len(subsets_of_names)
    /\ \E r \in {normalize(probabilities)} :
          /\ probabilities' = r.value
          /\ pc' = IF r.raised THEN r.error ELSE "done"
    /\ UNCHANGED <<people, ti, oi, wi, p, scored, s, subsets, calls, folded, last>>

Next == Skip \/ Score \/ ScoreRaises \/ Normalize

Spec == Init /\ [][Next]_vars

----------------------------------------------------------------------------
(* powerset on its own: any list of distinct elements *)

Lists ==
    {l \in UNION {[1..k -> 1..MaxSetSize] : k \in 0..MaxSetSize} :
        \A i, j \in 1..Len(l) : i # j => l[i] # l[j]}

InitPowerset ==
    /\ s \in Lists
    /\ subsets = <<>>
    /\ pc = "call"
    /\ people = <<>> /\ probabilities = <<>> /\ ti = 1 /\ oi = 1 /\ wi = 1
    /\ p = Zero /\ scored = EmptyBag /\ last = NoCall /\ calls = 0 /\ folded = Zero

CallPowerset ==
    /\ pc = "call"
    /\ subsets' = powerset(s)
    /\ pc' = "returned"
    /\ UNCHANGED <<people, probabilities, ti, oi, wi, p, scored, s, calls, folded, last>>

NextPowerset == CallPowerset

SpecPowerset == InitPowerset /\ [][NextPowerset]_vars

----------------------------------------------------------------------------
(* update and normalize on their own: any calls of update on the all-zero  *)
(* dictionary of main, then normalize                                      *)

\* the values of p handed to update
PValues == {Zero, Num(25, 2)}

InitUpdate ==
    /\ people = family(2, {}, [name \in names(2) |-> None])
    /\ probabilities = zeros(DOMAIN people)
    /\ pc = "update"
    /\ calls = 0
    /\ folded = Zero
    /\ last = NoCall
    /\ ti = 1 /\ oi = 1 /\ wi = 1 /\ p = Zero /\ scored = EmptyBag /\ s = <<>> /\ subsets = <<>>

CallUpdate ==
    /\ pc = "update"
    /\ calls < MaxCalls
    /\ \E one_gene \in SUBSET DOMAIN people, have_trait \in SUBSET DOMAIN people, pr \in PValues :
       \E two_genes \in SUBSET (DOMAIN people \ one_gene) :
          /\ probabilities' = update(probabilities, one_gene, two_genes, have_trait, pr)
          /\ last' = [one_gene |-> one_gene, two_genes |-> two_genes,
                      have_trait |-> have_trait, p |-> pr]
          /\ folded' = NumAdd(folded, pr)
    /\ calls' = calls + 1
    /\ UNCHANGED <<people, ti, oi, wi, pc, p, scored, s, subsets>>

CallNormalize ==
    /\ pc = "update"
    /\ \E r \in {normalize(probabilities)} :
          /\ probabilities' = r.value
          /\ pc' = IF r.raised THEN r.error ELSE "normalized"
    /\ UNCHANGED <<people, ti, oi, wi, p, scored, s, subsets, calls, folded, last>>

NextUpdate == CallUpdate \/ CallNormalize

SpecUpdate == InitUpdate /\ [][NextUpdate]_vars

----------------------------------------------------------------------------
(* Notions the properties are stated with *)

\* the gene count a hypothesis gives a person
count(person, one_gene, two_genes) ==
    IF person \in two_genes THEN 2 ELSE IF person \in one_gene THEN 1 ELSE 0

founders(ppl) == {person \in DOMAIN ppl : ppl[person].mother = None /\ ppl[person].father = None}

\* both parents absent, or both present and persons of the pedigree
WellFormed(ppl) ==
    \A person \in DOMAIN ppl :
        \/ person \in founders(ppl)
        \/ ppl[person].mother \in DOMAIN ppl /\ ppl[person].father \in DOMAIN ppl

NoEvidence(ppl) == \A person \in DOMAIN ppl : ppl[person].trait = None

\* transmit(g) of the closed form: m, 0.5, 1 - m
transmit(g) ==
    CASE g = 0 -> PROBS.mutation
      [] g = 1 -> Half
      [] g = 2 -> NumSub(One, PROBS.mutation)

\* the closed form's factor for a child with c copies, its parents passing the gene
\* with probabilities pm and pf
closed_form(c, pm, pf) ==
    CASE c = 2 -> NumMul(pm, pf)
      [] c = 0 -> NumMul(NumSub(One, pm), NumSub(One, pf))
      [] c = 1 -> NumAdd(NumMul(pm, NumSub(One, pf)), NumMul(pf, NumSub(One, pm)))

\* the factor of one person of a well-formed pedigree under the closed form
closed_form_factor(ppl, person, one_gene, two_genes, have_trait) ==
    NumMul(IF person \in founders(ppl)
           THEN PROBS.gene[count(person, one_gene, two_genes)]
           ELSE closed_form(count(person, one_gene, two_genes),
                            transmit(count(ppl[person].mother, one_gene, two_genes)),
                            transmit(count(ppl[person].father, one_gene, two_genes))),
           PROBS.trait[count(person, one_gene, two_genes)][(person \in have_trait)])

RECURSIVE closed_form_joint(_, _, _, _, _)
closed_form_joint(ppl, persons, one_gene, two_genes, have_trait) ==
    IF persons = <<>> THEN One
    ELSE NumMul(closed_form_factor(ppl, Head(persons), one_gene, two_genes, have_trait),
                closed_form_joint(ppl, Tail(persons), one_gene, two_genes, have_trait))

\* the sum of a distribution after normalize
gene_sum(d) == NumAdd(NumAdd(d.gene[0], d.gene[1]), d.gene[2])

trait_sum(d) == NumAdd(d.trait[TRUE], d.trait[FALSE])

\* the hypotheses the enumeration has to score for a pedigree
hypotheses(ppl) ==
    {<<one_gene, two_genes, have_trait>> :
        one_gene \in SUBSET DOMAIN ppl, two_genes \in SUBSET DOMAIN ppl,
        have_trait \in {h \in SUBSET DOMAIN ppl : ~fails_evidence(ppl, h)}}
    \cap {h \in (SUBSET DOMAIN ppl) \X (SUBSET DOMAIN ppl) \X (SUBSET DOMAIN ppl) : h[1] \cap h[2] = {}}

----------------------------------------------------------------------------
(* Properties *)

\* C1: for a non-founder the gene-count factor joint_probability uses is the
\* closed form pm*pf, (1-pm)*(1-pf), pm*(1-pf)+pf*(1-pm) with transmit = 0.01,
\* 0.5, 0.99: the joint probability last returned for a well-formed pedigree is
\* the product of the closed form's per-person factors.
C1_ClosedForm ==
    (WellFormed(people) /\ scored # EmptyBag) =>
        NumEq(p, closed_form_joint(people, list(DOMAIN people),
                                   last.one_gene, last.two_genes, last.have_trait))

\* C2: with no observed trait anywhere, a finished run gives every founder
\* (with or without children) exactly the prior 0.96, 0.03, 0.01 as the
\* posterior of its gene count.
C2_FounderPrior ==
    (pc = "done" /\ NoEvidence(people)) =>
        \A person \in founders(people) : \A g \in 0..2 :
            NumEq(probabilities[person].gene[g], PROBS.gene[g])

\* C3: every scored have_trait subset (each is the last one scored in some
\* state) agrees with every observed trait, every subset that agrees has been
\* scored when the run is finished (unobserved persons restrict nothing), and
\* after a finished run a person with an observed trait has trait posterior
\* exactly 1 on the observed value and exactly 0 on the other.
C3_Evidence ==
    /\ scored # EmptyBag =>
          \A person \in DOMAIN people :
             /\ people[person].trait = "True" => person \in last.have_trait
             /\ people[person].trait = "False" => person \notin last.have_trait
    /\ pc = "done" =>
          \A t \in SUBSET DOMAIN people :
             ~fails_evidence(people, t) => \E h \in BagToSet(scored) : h[3] = t
    /\ pc = "done" =>
          \A person \in DOMAIN people :
             people[person].trait # None =>
                /\ NumEq(probabilities[person].trait[people[person].trait = "True"], One)
                /\ NumIsZero(probabilities[person].trait[people[person].trait # "True"])

C3_Witness ==
    /\ pc = "done"
    /\ \E a, b, c \in DOMAIN people :
          people[a].trait = "True" /\ people[b].trait = "False" /\ people[c].trait = None

\* C4: a run on a well-formed pedigree raises nothing, after it the three gene
\* buckets of every person sum to 1 and so do the two trait buckets, and
\* normalize keeps the proportions of the buckets within each distribution.
C4_Normalized ==
    /\ [](WellFormed(people) => pc \in {"enumerate", "done"})
    /\ [](pc = "done" =>
            \A person \in DOMAIN people :
               /\ NumEq(gene_sum(probabilities[person]), One)
               /\ NumEq(trait_sum(probabilities[person]), One))
    /\ [][(pc = "enumerate" /\ pc' = "done") =>
            \A person \in DOMAIN people :
               /\ \A g, h \in 0..2 :
                     NumEq(NumMul(probabilities'[person].gene[g], probabilities[person].gene[h]),
                           NumMul(probabilities'[person].gene[h], probabilities[person].gene[g]))
               /\ NumEq(NumMul(probabilities'[person].trait[TRUE], probabilities[person].trait[FALSE]),
                        NumMul(probabilities'[person].trait[FALSE], probabilities[person].trait[TRUE]))]_vars

C4_Witness ==
    /\ pc = "done"
    /\ founders(people) # DOMAIN people
    /\ \E person \in DOMAIN people : people[person].trait = None

\* the closed-form Bayes update of the prior by one observed trait value
bayes(g, t) ==
    NumDiv(NumMul(PROBS.gene[g], PROBS.trait[g][t]),
           NumAdd(NumAdd(NumMul(PROBS.gene[0], PROBS.trait[0][t]),
                         NumMul(PROBS.gene[1], PROBS.trait[1][t])),
                  NumMul(PROBS.gene[2], PROBS.trait[2][t])))

\* C5: in a pedigree of founders only, a person with observed trait t has the
\* gene posterior prior(g) * P(t | g) / sum over g' of prior(g') * P(t | g'),
\* whoever else is in the pedigree and whatever is observed of them.
C5_Bayes ==
    (pc = "done" /\ founders(people) = DOMAIN people) =>
        \A person \in DOMAIN people :
            people[person].trait # None =>
                \A g \in 0..2 :
                    NumEq(probabilities[person].gene[g], bayes(g, people[person].trait = "True"))

C5_Witness ==
    /\ pc = "done"
    /\ founders(people) = DOMAIN people
    /\ \E a, b, c \in DOMAIN people :
          people[a].trait = "True" /\ people[b].trait = "False" /\ people[c].trait = None

\* C6: powerset of a set of size n returns exactly 2^n pairwise distinct
\* subsets, the empty set and the whole set among them; for n = 0 exactly the
\* one element {}.
C6_Powerset ==
    pc = "returned" =>
        /\ Len(subsets) = 2 ^ Len(s)
        /\ \A i, j \in 1..Len(subsets) : i # j => subsets[i] # subsets[j]
        /\ \A i \in 1..Len(subsets) : subsets[i] \subseteq Range(s)
        /\ \E i \in 1..Len(subsets) : subsets[i] = {}
        /\ \E i \in 1..Len(subsets) : subsets[i] = Range(s)
        /\ Len(s) = 0 => subsets = <<{}>>

C6_Witness == pc = "returned" /\ Len(s) >= 3

\* C7: when some person's parents cannot be classified (exactly one of them
\* recorded, or one not a person of the pedigree), no joint probability is ever
\* returned or accumulated, the enumeration is never left for normalize, and
\* the run ends in the raised error or is still before its first hypothesis.
C7_Unclassifiable ==
    ~WellFormed(people) =>
        /\ pc \in {"enumerate", "TypeError"}
        /\ scored = EmptyBag
        /\ probabilities = zeros(DOMAIN people)
        /\ ti <= Len(subsets_of_names)
        /\ (pc = "enumerate" /\ ~fails_evidence(people, subsets_of_names[ti])) =>
              joint_probability(people, subsets_of_names[oi],
                                two_genes_choices(subsets_of_names[oi])[wi],
                                subsets_of_names[ti]).raised

C7_Witness ==
    /\ pc = "TypeError"
    /\ \E person \in DOMAIN people :
          people[person].father = "Nobody" /\ people[person].mother \in DOMAIN people

\* C8: normalize raises, and returns nothing, whenever some person's gene or
\* trait distribution has total zero.
C8_ZeroTotal ==
    [][(pc = "update" /\ pc' # "update"
        /\ \E person \in DOMAIN probabilities :
              \/ NumIsZero(gene_sum(probabilities[person]))
              \/ NumIsZero(trait_sum(probabilities[person])))
       => pc' = "ZeroDivisionError"]_vars

C8_Witness == pc = "ZeroDivisionError" /\ calls = MaxCalls

\* C9: for every have_trait subset that agrees with the evidence the loop
\* scores each pair of disjoint (one_gene, two_genes) exactly once: the
\* hypothesis just scored is never an overlapping pair and never one scored
\* before, and after a finished run every such hypothesis (3^n per have_trait
\* subset) has been scored.
C9_Enumeration ==
    /\ scored # EmptyBag =>
          /\ CopiesIn(<<last.one_gene, last.two_genes, last.have_trait>>, scored) = 1
          /\ last.one_gene \cap last.two_genes = {}
          /\ ~fails_evidence(people, last.have_trait)
    /\ pc = "done" =>
          /\ BagToSet(scored) = hypotheses(people)
          /\ \A t \in SUBSET DOMAIN people :
                ~fails_evidence(people, t) =>
                    Cardinality({h \in BagToSet(scored) : h[3] = t}) = 3 ^ Cardinality(DOMAIN people)

C9_Witness ==
    /\ pc = "done"
    /\ Cardinality(DOMAIN people) >= 3
    /\ \E a, b \in DOMAIN people : people[a].trait = "True" /\ people[b].trait = None

\* C10: one update with disjoint one_gene and two_genes adds p, for every
\* person, to the gene bucket of its count and to the trait bucket of its
\* membership in have_trait and changes no other bucket; so after any calls
\* from the all-zero dictionary every person's gene buckets and trait buckets
\* both sum to the sum of the p values.
C10_Update ==
    /\ [][calls' = calls + 1 =>
            \A person \in DOMAIN probabilities :
               /\ \A g \in 0..2 :
                     IF g = count(person, last'.one_gene, last'.two_genes)
                     THEN NumEq(probabilities'[person].gene[g],
                                NumAdd(probabilities[person].gene[g], last'.p))
                     ELSE probabilities'[person].gene[g] = probabilities[person].gene[g]
               /\ \A t \in BOOLEAN :
                     IF t = (person \in last'.have_trait)
                     THEN NumEq(probabilities'[person].trait[t],
                                NumAdd(probabilities[person].trait[t], last'.p))
                     ELSE probabilities'[person].trait[t] = probabilities[person].trait[t]]_vars
    /\ [](pc = "update" =>
            \A person \in DOMAIN probabilities :
               /\ NumEq(gene_sum(probabilities[person]), folded)
               /\ NumEq(trait_sum(probabilities[person]), folded))

C10_Witness ==
    /\ pc = "update"
    /\ calls = MaxCalls
    /\ ~NumIsZero(probabilities["Harry"].gene[2])
    /\ ~NumIsZero(probabilities["James"].gene[1])
    /\ ~NumIsZero(probabilities["James"].gene[0])

====
